---- MODULE Spec2Model ----
(***************************************************************************)
(* ScanFlow batch document pipeline: the File Queue, the Field Registry    *)
(* and the sequential orchestrator processAllFiles, in the three variants  *)
(* of App that the repository holds:                                       *)
(*   "sheets"    src/App.tsx            (Google Sheets stage in the loop)  *)
(*   "firestore" src/unnamed/part_000   (Firestore persistence, PDF)       *)
(*   "lite"      src/unnamed/part_001   (extraction only)                  *)
(* processAllFiles is an async function: it captures files, regions and    *)
(* the sheet settings of the render it was started from, and every         *)
(* setFiles(prev => prev.map((f, idx) => idx === i ? ... : f)) acts on the *)
(* live queue.  Each await is a step boundary at which the operator's      *)
(* handlers may run.                                                       *)
(***************************************************************************)
EXTENDS Integers, Sequences, FiniteSets, TLC

VARIABLES variant, files, regions, activeRegionId, isProcessing,
          isSheetEnabled, spreadsheetId, accessToken,
          pc, i, runFiles, runRegions, runSheetOn,
          result, visited, outcome, alert, ops, isDetecting, detecting,
          isDrawing, startPos, currentPos, drawn, sheetSync,
          batchId, runBatchId, exported, replay, uploads,
          aiHints, runHints, detection

vars == <<variant, files, regions, activeRegionId, isProcessing,
          isSheetEnabled, spreadsheetId, accessToken,
          pc, i, runFiles, runRegions, runSheetOn,
          result, visited, outcome, alert, ops, isDetecting, detecting,
          isDrawing, startPos, currentPos, drawn, sheetSync,
          batchId, runBatchId, exported, replay, uploads,
          aiHints, runHints, detection>>

\* the drag state of DocumentCanvas and the count of regions it has created
canvasVars == <<isDrawing, startPos, currentPos, drawn>>

\* the last download, the two canvases of a replayed drag, the uploads
\* whose files are being prepared and the text of the AI hints box
sideVars == <<exported, replay, uploads, aiHints>>

(* ------------------------------ bounds -------------------------------- *)
\* number of downloads the operator asks for in a behaviour
MaxExports == 1
\* number of operator actions in a behaviour in which the operator edits
\* what a run reads
MaxEdits == 3
\* number of uploads whose files are being prepared at the same time
MaxPending == 2
\* longest File Queue the operator builds
MaxQueue == 3
\* largest number of files chosen in one upload dialog
MaxBatch == 2
\* number of operator actions (upload, remove, sheet switch) in a behaviour
MaxOps == 4
\* number of operator actions in a behaviour checked for termination
MaxLiveOps == 3
\* number of regions in the registry beyond which the operator draws no more
MaxDrawn == 2

Variants == {"sheets", "firestore", "lite"}

(* ------------------------------ data ---------------------------------- *)
\* extractedData absent (the optional field is undefined).  Of a result the
\* model keeps the field names it holds and the file whose image it was
\* computed from; a queue entry keeps whether that file is the entry itself.
NoData == [src |-> "none", keys |-> <<>>, hints |-> ""]
\* error absent
NoError == "none"

\* startPos / currentPos null
NoPoint == [x |-> -1, y |-> -1]

\* the firestore variant computes a batchId when App mounts
NewBatchId(v) == IF v = "firestore" THEN "batch_1" ELSE ""

\* nothing downloaded yet
NoExport == [count |-> 0, rows |-> <<>>]

\* no drag replayed
NoReplay == [pc |-> "none"]

\* what the detection call that settled since the operator's last action
\* came to: resolved with the list d, or thrown
NoDetection == [o |-> "none", d |-> <<>>]

\* syncToGoogleSheets not running: no captured queue, no alert shown
NoSheetSync == [pc |-> "idle", idx |-> 0, files |-> <<>>, report |-> "none"]

\* the value of the sync field of a freshly uploaded file
InitialSync(v) ==
  IF v = "sheets" THEN "pending"
  ELSE IF v = "firestore" THEN "unsynced"
  ELSE "none"

\* A queue entry.  Its id is a random string that the code only compares
\* for equality; what the orchestrator's writes depend on is where the entry
\* stood in the array a running processAllFiles captured, so the model
\* identifies an entry by slot: its index in that array, 0 for an entry
\* that no run in progress has captured.
NewFile(v) ==
  [slot |-> 0, preview |-> "image", status |-> "pending",
   syncStatus |-> InitialSync(v), extractedData |-> NoData, error |-> NoError]

Region(id, name) == [id |-> id, name |-> name, x |-> 10, y |-> 10 * id,
                     width |-> 30, height |-> 5]

RegionAt(id, name, x, y, w, h) ==
  [id |-> id, name |-> name, x |-> x, y |-> y, width |-> w, height |-> h]

\* registries the operator can have drawn before the pipeline is used; the
\* region drawn last is the active one (DocumentCanvas selects what it adds)
InitRegions == { <<>>, <<Region(1, "Field 1"), Region(2, "Field 2")>> }

\* the spreadsheet id and access token typed in before the pipeline is used
InitCredentials == { <<"", "">>, <<"sheet", "token">> }

RegionNames(rs) == [k \in 1..Len(rs) |-> rs[k].name]

\* what detectRegionsFromImage returns when the model finds fields
DetectedRegions ==
  << RegionAt(11, "Invoice Number", 10, 10, 30, 5),
     RegionAt(12, "Total", 10, 20, 30, 5) >>

\* detectRegionsFromImage maps the parsed response to regions as it comes:
\* the response schema types x, y, width and height as numbers and nothing
\* checks their values.  The responses drawn: no field, two proper fields,
\* one field that is a point outside the page.
DetectResponses ==
  { <<>>, DetectedRegions, <<RegionAt(11, "Date", 120, 10, 0, 1)>> }

\* the pointer positions of the canvas events, in percent of the container
Points == { [x |-> 0, y |-> 0], [x |-> 1, y |-> 1],
            [x |-> 3, y |-> 1], [x |-> 3, y |-> 3] }

\* what the operator types into a region's name input
TypedNames == {"Total", "Field 1"}

Abs(n) == IF n < 0 THEN -n ELSE n

\* (mutant) the corner taken from where the drag started
MinOfStart(a, b) == a

\* Math.min
Min(a, b) == IF a < b THEN a ELSE b

\* `Field ${regions.length + 1}`
FieldName(n) == "Field " \o ToString(n)

\* the threshold of handleMouseUp, in percent
MinSize == 1

\* (mutant) a threshold that lets a drag of exactly the minimum size through
BigEnoughOrEqual(w, h) == w >= MinSize /\ h >= MinSize

\* if (width > 1 && height > 1)
BigEnough(w, h) == w > MinSize /\ h > MinSize

(* --------------------- extraction service ----------------------------- *)
\* extractDataFromImage: the parsed JSON object of the response, or {} when
\* the response text does not parse; a rejected generateContent propagates.
ExtractOutcomes == {"ok", "unparsable", "throw"}

ExtractDataFromImage(src, rs, hints, o) ==
  IF o = "ok" THEN [src |-> src, keys |-> RegionNames(rs), hints |-> hints]
  ELSE [src |-> src, keys |-> <<>>, hints |-> ""]

\* data[name] || "": the value extracted for the region name (the name
\* stands for it), or the empty string when the object has no such key
Cell(data, name) ==
  IF \E k \in 1..Len(data.keys) : data.keys[k] = name THEN name ELSE ""

\* const rowData = regions.map(r => result[r.name] || "")
RowData(data, rs) == [k \in 1..Len(rs) |-> Cell(data, rs[k].name)]

\* file.file.name, the first value of a row of the batch sync
FileName == "file.name"

\* const rowData = [file.file.name,
\*                  ...regions.map(r => file.extractedData?.[r.name] || '')]
BatchRowData(f, rs) == <<FileName>> \o RowData(f.extractedData, rs)

\* appendToGoogleSheet: true, false (response not ok), or a rejection
SheetOutcomes == {"true", "false", "throw"}
\* saveExtractionToFirestore catches everything: response.ok or false
FirestoreOutcomes == {"true", "false"}

SyncOutcomes(v) == IF v = "sheets" THEN SheetOutcomes ELSE FirestoreOutcomes

(* ----------------------- queue updates -------------------------------- *)
\* prev.map((f, idx) => idx === i ? { ...f, status: 'processing' } : f)
MarkProcessing(fs, idx) ==
  [k \in 1..Len(fs) |->
     IF k = idx THEN [fs[k] EXCEPT !.status = "processing"] ELSE fs[k]]

\* a result as it sits on the queue entry f
Stored(res, f) ==
  [src |-> IF res.src = f.slot THEN "own" ELSE "other", keys |-> res.keys,
   hints |-> res.hints]

\* the write after a successful extraction
MarkCompleted(v, fs, idx, res) ==
  [k \in 1..Len(fs) |->
     IF k = idx
       THEN IF v = "firestore"
              THEN [fs[k] EXCEPT !.status = "completed",
                                 !.extractedData = Stored(res, fs[k]),
                                 !.syncStatus = "syncing"]
              ELSE [fs[k] EXCEPT !.status = "completed",
                                 !.extractedData = Stored(res, fs[k])]
       ELSE fs[k]]

\* sheets only: sheetSyncStatus: 'syncing'
MarkSyncing(fs, idx) ==
  [k \in 1..Len(fs) |->
     IF k = idx THEN [fs[k] EXCEPT !.syncStatus = "syncing"] ELSE fs[k]]

\* syncStatus: success ? 'synced' : 'failed'
MarkSynced(fs, idx, success) ==
  [k \in 1..Len(fs) |->
     IF k = idx
       THEN [fs[k] EXCEPT !.syncStatus = IF success THEN "synced" ELSE "failed"]
       ELSE fs[k]]

\* (mutant) a catch block that swallows the error without recording it
MarkErrorSwallowed(v, fs, idx) == fs

\* the write of the catch block
MarkError(v, fs, idx) ==
  [k \in 1..Len(fs) |->
     IF k = idx
       THEN IF v = "sheets"
              THEN [fs[k] EXCEPT !.status = "error", !.syncStatus = "failed"]
            ELSE IF v = "firestore"
              THEN [fs[k] EXCEPT !.status = "error",
                                 !.error = "Extraction failed"]
            ELSE [fs[k] EXCEPT !.status = "error"]
       ELSE fs[k]]

(* --------------------------- skip rule -------------------------------- *)
\* (mutant) a loop without the `continue`: every file is taken up again
SkipNothing(v, f, sheetEnabled) == FALSE

\* the `continue` at the head of the loop body, on the captured files[i]
SkipRule(v, f, sheetEnabled) ==
  IF v = "sheets"
    THEN f.status = "completed" /\ (~sheetEnabled \/ f.syncStatus = "synced")
    ELSE f.status = "completed"

\* The closure of one call of processAllFiles: of the captured files array
\* the loop reads files[i].file (the image of slot i) and the operands of
\* the skip test, both fixed at capture.
Capture(v, fs, sheetEnabled) ==
  [k \in 1..Len(fs) |-> [skip |-> SkipRule(v, fs[k], sheetEnabled)]]

\* the live queue at the moment a run captures it / once its closure is gone
Slotted(fs) == [k \in 1..Len(fs) |-> [fs[k] EXCEPT !.slot = k]]
Unslotted(fs) == [k \in 1..Len(fs) |-> [fs[k] EXCEPT !.slot = 0]]

\* first index >= from whose captured file is not skipped, Len+1 if none
RECURSIVE NextIndex(_, _)
NextIndex(rf, from) ==
  IF from > Len(rf) THEN Len(rf) + 1
  ELSE IF ~rf[from].skip THEN from
  ELSE NextIndex(rf, from + 1)

\* if (isSheetEnabled && spreadsheetId && accessToken), on captured values
SheetStageOn(en, sid, tok) == en /\ sid # "" /\ tok # ""

\* (mutant) a button whose disabled attribute leaves isProcessing out
RunDisabledWhenEmpty(v, busy, fs, rs) ==
  IF v = "sheets" THEN Len(fs) = 0
  ELSE Len(fs) = 0 \/ Len(rs) = 0

\* the button's disabled attribute
RunDisabled(v, busy, fs, rs) ==
  IF v = "sheets" THEN busy \/ Len(fs) = 0
  ELSE busy \/ Len(fs) = 0 \/ Len(rs) = 0

\* (mutant) processAllFiles without its guard on the registry
RegistryNeverEmpty(rs) == FALSE

\* if (regions.length === 0) { alert(...); return; }
RegistryEmpty(rs) == Len(rs) = 0

\* removeFile's guard, for the entry at position k:
\* if (fileToRemove?.status === 'processing') return;
RemoveBlocked(v, fs, k) == v = "firestore" /\ fs[k].status = "processing"

\* prev.filter(f => f.id !== id), id being the id of the entry at position k
FilterOut(fs, k) == [j \in 1..(Len(fs) - 1) |-> IF j < k THEN fs[j] ELSE fs[j + 1]]

(* ------------------------------ Init ---------------------------------- *)
Init ==
  /\ variant \in Variants
  /\ files = <<>>
  /\ regions \in InitRegions
  /\ variant # "sheets" => Len(regions) > 0
  /\ activeRegionId = IF Len(regions) = 0 THEN 0 ELSE regions[Len(regions)].id
  /\ isProcessing = FALSE
  /\ isSheetEnabled = FALSE
  /\ \E c \in InitCredentials :
       /\ spreadsheetId = c[1]
       /\ accessToken = c[2]
       /\ variant # "sheets" => c[1] = ""
  /\ pc = "idle"
  /\ i = 0
  /\ runFiles = <<>>
  /\ runRegions = <<>>
  /\ runSheetOn = FALSE
  /\ result = NoData
  /\ visited = <<>>
  /\ outcome = "none"
  /\ alert = "none"
  /\ ops = 0
  /\ isDetecting = FALSE
  /\ detecting = 0
  /\ isDrawing = FALSE
  /\ startPos = NoPoint
  /\ currentPos = NoPoint
  /\ drawn = Len(regions)
  /\ sheetSync = NoSheetSync
  /\ batchId = NewBatchId(variant)
  /\ runBatchId = ""
  /\ aiHints = ""
  /\ detection = NoDetection
  /\ runHints = ""
  /\ exported = NoExport
  /\ replay = NoReplay
  /\ uploads = <<>>

(* ------------------------------ batchId ------------------------------- *)
\* (mutant) a batchId computed anew by every render
UseMemoEveryRender(cached, fresh) == fresh

\* useMemo(factory, []): a render after the first returns the value the
\* first render computed and does not run the factory
UseMemo(cached, fresh) == cached

\* a render of App: the factory would give an id the session has not had
Rerender ==
  batchId' = UseMemo(batchId,
                     IF batchId = "batch_1" THEN "batch_2" ELSE "batch_1")

(* -------------------------- loop control ------------------------------ *)
\* leaves the captured closure behind when the async function returns
DropClosure ==
  /\ runFiles' = <<>>
  /\ runRegions' = <<>>
  /\ runSheetOn' = FALSE
  /\ runBatchId' = ""
  /\ runHints' = ""

\* From the head of the loop at index `from`, with live queue fs and the ids
\* lg of the files this run has taken up so far:
\* skip, mark the next file processing and suspend at its first await, or
\* leave the loop and setIsProcessing(false).
ContinueLoop(fs, from, lg, rf) ==
  LET j == NextIndex(rf, from) IN
  IF j <= Len(rf)
    THEN /\ files' = MarkProcessing(fs, j)
         /\ i' = j
         /\ pc' = "extract"
         /\ visited' = Append(lg, j)
         /\ isProcessing' = TRUE
         /\ result' = NoData
    ELSE /\ files' = Unslotted(fs)
         /\ i' = 0
         /\ pc' = "idle"
         /\ visited' = <<>>
         /\ isProcessing' = FALSE
         /\ result' = NoData

(* --------------------------- processAllFiles -------------------------- *)
\* the click on Run Automation: the synchronous part of processAllFiles up
\* to its first await (or to its return).  The button is all that keeps a
\* click away: a click that got through during a run would start a second
\* loop from index 0 on the queue of that moment.
ProcessAllFiles ==
  /\ ~RunDisabled(variant, isProcessing, files, regions)
  /\ outcome' = "none"
  /\ IF RegistryEmpty(regions)
       THEN /\ alert' = "config"
            /\ UNCHANGED <<files, isProcessing, pc, i, runFiles, runRegions,
                           runSheetOn, runBatchId, runHints, result,
                           visited>>
       ELSE /\ alert' = "none"
            /\ LET rf == Capture(variant, files, isSheetEnabled) IN
               /\ ContinueLoop(Slotted(files), 1, <<>>, rf)
               /\ IF NextIndex(rf, 1) <= Len(rf)
                    THEN /\ runFiles' = rf
                         /\ runRegions' = regions
                         /\ runSheetOn' = SheetStageOn(isSheetEnabled,
                                                       spreadsheetId, accessToken)
                         /\ runBatchId' = batchId
                         /\ runHints' = aiHints
                    ELSE DropClosure
  /\ UNCHANGED <<variant, detection, regions, activeRegionId, isSheetEnabled,
                 spreadsheetId, accessToken, isDetecting, detecting, ops>>
  /\ Rerender
  /\ UNCHANGED <<canvasVars, sheetSync, sideVars>>

\* what every resumption of the loop leaves alone
RunFrame ==
  /\ alert' = "none"
  /\ UNCHANGED <<variant, detection, regions, activeRegionId, isSheetEnabled,
                 spreadsheetId, accessToken, isDetecting, detecting, ops>>
  /\ Rerender
  /\ UNCHANGED <<canvasVars, sheetSync, sideVars>>

\* (mutant) a loop body that ends with `break`: the run stops after the file
ResumeAborts(fs, lg) ==
  /\ ContinueLoop(fs, Len(runFiles) + 1, lg, runFiles)
  /\ DropClosure

\* the loop goes on from index i+1; the closure is dropped when it ends
Resume(fs, lg) ==
  /\ ContinueLoop(fs, i + 1, lg, runFiles)
  /\ IF NextIndex(runFiles, i + 1) <= Len(runFiles)
       THEN UNCHANGED <<runFiles, runRegions, runSheetOn, runBatchId,
                        runHints>>
       ELSE DropClosure

\* (mutant) a loop that reads the state of the latest render
ClosureLive(captured, live) == live

\* a state variable read inside processAllFiles: the value of the render
\* whose handler was clicked, whatever has been set since
Closure(captured, live) == captured

\* whether the loop body goes on to a sync stage after a good extraction
HasSyncStage(v, sheetOn) ==
  IF v = "firestore" THEN TRUE
  ELSE IF v = "sheets" THEN sheetOn
  ELSE FALSE

\* The extraction stage settled with outcome o.  In sheets and lite the
\* stage is `await` FileReader then `await` extractDataFromImage; nothing is
\* read or written between the two and a rejection of either lands in the
\* same catch block, so the model has one suspension for the stage and
\* "throw" stands for either rejection.
ExtractSettles(o) ==
  IF o = "throw"
    THEN Resume(MarkError(variant, files, i), visited)
    ELSE LET res == ExtractDataFromImage(
                       i, Closure(runRegions, regions),
                       IF variant = "sheets" THEN ""
                       ELSE Closure(runHints, aiHints), o)
             fs1 == MarkCompleted(variant, files, i, res) IN
         IF HasSyncStage(variant,
                         Closure(runSheetOn,
                                 SheetStageOn(isSheetEnabled, spreadsheetId,
                                              accessToken)))
           THEN /\ files' = IF variant = "sheets"
                              THEN MarkSyncing(fs1, i) ELSE fs1
                /\ pc' = "sync"
                /\ result' = res
                /\ UNCHANGED <<i, isProcessing, runFiles, runRegions,
                               runSheetOn, runBatchId, runHints, visited>>
           ELSE Resume(fs1, visited)

\* extractDataFromImage settles.  The loop stores whatever object the call
\* resolves with and never looks into it, so of the resolved outcomes the
\* pipeline draws the parsed object; the {} of an unparsable response is
\* stored by the same write.
ExtractDone ==
  /\ pc = "extract"
  /\ RunFrame
  /\ \E o \in {"ok", "throw"} :
       /\ outcome' = o
       /\ ExtractSettles(o)

\* extractDataFromImage resolves with the {} of its catch block: the text of
\* the response did not parse
ExtractDoneUnparsable ==
  /\ pc = "extract"
  /\ RunFrame
  /\ outcome' = "unparsable"
  /\ ExtractSettles("unparsable")

\* (mutant) a sync stage that calls the collaborator again until it succeeds
SyncSettlesRetry(o) ==
  IF o = "true"
    THEN Resume(MarkSynced(files, i, TRUE), visited)
    ELSE UNCHANGED <<files, i, pc, visited, isProcessing, result, runFiles,
                     runRegions, runSheetOn, runBatchId, runHints>>

\* the sync stage settled with outcome o
SyncSettles(o) ==
  IF o = "throw"
    THEN Resume(MarkError(variant, files, i), visited)
    ELSE Resume(MarkSynced(files, i, o = "true"), visited)

\* appendToGoogleSheet / saveExtractionToFirestore settles
SyncDone ==
  /\ pc = "sync"
  /\ RunFrame
  /\ \E o \in SyncOutcomes(variant) :
       /\ outcome' = o
       /\ SyncSettles(o)

(* --------------------------- operator actions ------------------------- *)
\* an operator handler leaves the suspended run alone
OpCommon ==
  /\ ops < MaxOps
  /\ ops' = ops + 1
  /\ outcome' = "none"
  /\ alert' = "none"
  /\ UNCHANGED <<variant, isProcessing, pc, i, runFiles, runRegions,
                 runSheetOn, runBatchId, runHints, result,
                           visited>>
  /\ Rerender
  /\ UNCHANGED <<canvasVars, sheetSync, sideVars>>

\* an operator action other than the settling of a detection call
OpFrame ==
  /\ OpCommon
  /\ detection' = NoDetection

\* (mutant) new files put in front of the queue
EnqueueInFront(fs, new) == new \o fs

\* setFiles(prev => [...prev, ...newFiles])
Enqueue(fs, new) == fs \o new

\* the number of files in the uploads under preparation
RECURSIVE Pending(_)
Pending(us) == IF us = <<>> THEN 0 ELSE Len(Head(us)) + Pending(Tail(us))

\* handleFileUpload with n chosen images; firestore and lite start
\* auto-detection on the first of them when the registry is empty.  In
\* firestore this is an upload whose files are read before anything else
\* happens.
HandleFileUpload ==
  \E n \in 1..MaxBatch :
    /\ Len(files) + Pending(uploads) + n <= MaxQueue
    /\ files' = Enqueue(files, [k \in 1..n |-> NewFile(variant)])
    /\ IF variant # "sheets" /\ Len(regions) = 0
         THEN isDetecting' = TRUE /\ detecting' = detecting + 1
         ELSE UNCHANGED <<isDetecting, detecting>>
    /\ OpFrame
    /\ UNCHANGED <<regions, activeRegionId, isSheetEnabled, spreadsheetId,
                   accessToken>>

(* ---------------- handleFileUpload of firestore, in steps -------------- *)
\* file.type === 'application/pdf' or not
FileKinds == {"image", "pdf"}

\* the preview of a chosen file: the data URL of an image, the rendered
\* first page of a PDF, or '' when renderPdfToImage rejected
Preview(kind, o) ==
  IF kind = "pdf" THEN (IF o = "ok" THEN "page" ELSE "") ELSE "image"

\* fileToBase64 rejects for one of the images: nothing catches it
Rejects(kinds, os) ==
  \E k \in 1..Len(kinds) : kinds[k] = "image" /\ os[k] = "fail"

\* processedFiles
Prepared(v, kinds, os) ==
  [k \in 1..Len(kinds) |->
     [NewFile(v) EXCEPT !.preview = Preview(kinds[k], os[k])]]

\* handleFileUpload up to its first await: the chosen files are taken and
\* nothing is written
BeginUpload ==
  /\ variant = "firestore"
  /\ Len(uploads) < MaxPending
  /\ ops < MaxOps
  /\ \E n \in 1..MaxBatch :
       /\ Len(files) + Pending(uploads) + n <= MaxQueue
       /\ \E kinds \in [1..n -> FileKinds] : uploads' = Append(uploads, kinds)
  /\ ops' = ops + 1
  /\ outcome' = "none"
  /\ alert' = "none"
  /\ UNCHANGED <<variant, detection, files, regions, activeRegionId, isProcessing,
                 isSheetEnabled, spreadsheetId, accessToken, pc, i, runFiles,
                 runRegions, runSheetOn, runBatchId, runHints, result, visited,
                 isDetecting, detecting, canvasVars, sheetSync, batchId,
                 exported, replay, aiHints>>

\* the last await of an upload settled: the files are appended and, with an
\* empty registry, detection starts on the first of them if it has a
\* preview; a rejected fileToBase64 ends the handler before that
UploadPrepared ==
  /\ \E u \in 1..Len(uploads) :
       \E os \in [1..Len(uploads[u]) -> {"ok", "fail"}] :
         LET new == Prepared(variant, uploads[u], os) IN
         /\ uploads' = [k \in 1..Len(uploads) - 1 |->
                          IF k < u THEN uploads[k] ELSE uploads[k + 1]]
         /\ IF Rejects(uploads[u], os)
              THEN UNCHANGED <<files, isDetecting, detecting>>
              ELSE /\ files' = Enqueue(files, new)
                   /\ IF Len(regions) = 0 /\ new[1].preview # ""
                        THEN /\ isDetecting' = TRUE
                             /\ detecting' = detecting + 1
                        ELSE UNCHANGED <<isDetecting, detecting>>
  /\ Rerender
  /\ UNCHANGED <<variant, detection, regions, activeRegionId, isProcessing,
                 isSheetEnabled, spreadsheetId, accessToken, pc, i, runFiles,
                 runRegions, runSheetOn, runBatchId, runHints, result, visited,
                 outcome, alert, ops, canvasVars, sheetSync, exported, replay,
                 aiHints>>

\* Magic Auto-Detect / the refresh control over the canvas (firestore, lite)
HandleManualAutoDetect ==
  /\ variant # "sheets"
  /\ Len(files) > 0
  /\ variant = "lite" => ~isDetecting
  /\ isDetecting' = TRUE
  /\ detecting' = detecting + 1
  /\ OpFrame
  /\ UNCHANGED <<files, regions, activeRegionId, isSheetEnabled,
                 spreadsheetId, accessToken>>

\* (mutant) a settle without the test of the length: an empty list empties
\* the registry
InstalledAsReturned(rs, act, o, d) ==
  IF o = "resolve"
    THEN [regions |-> d, active |-> IF Len(d) > 0 THEN d[1].id ELSE act]
    ELSE [regions |-> rs, active |-> act]

\* if (detectedRegions && detectedRegions.length > 0) { setRegions(...);
\* setActiveRegionId(detectedRegions[0].id) }; the catch only logs
Installed(rs, act, o, d) ==
  IF o = "resolve" /\ Len(d) > 0
    THEN [regions |-> d, active |-> d[1].id]
    ELSE [regions |-> rs, active |-> act]

\* detectRegionsFromImage settles inside triggerAutoDetectForFile: a
\* non-empty result replaces the registry, a rejection is swallowed, and the
\* finally block resets isDetecting
DetectDone ==
  /\ detecting > 0
  /\ detecting' = detecting - 1
  /\ isDetecting' = FALSE
  /\ \E o \in {"resolve", "throw"} :
       \E d \in DetectResponses :
         /\ detection' = [o |-> o, d |-> IF o = "resolve" THEN d ELSE <<>>]
         /\ regions' = Installed(regions, activeRegionId, o, d).regions
         /\ activeRegionId' = Installed(regions, activeRegionId, o, d).active
  /\ OpCommon
  /\ UNCHANGED <<files, isSheetEnabled, spreadsheetId, accessToken>>

\* removeFile(id) from the queue row's X button
RemoveFile ==
  \E k \in 1..Len(files) :
    /\ files' = IF RemoveBlocked(variant, files, k) THEN files
                ELSE FilterOut(files, k)
    /\ OpFrame
    /\ UNCHANGED <<regions, activeRegionId, isSheetEnabled, spreadsheetId,
                   accessToken, isDetecting, detecting>>

\* deleteRegion(id) (sheets, lite) / the inline delete control (firestore)
DeleteRegion ==
  \E k \in 1..Len(regions) :
    LET id == regions[k].id IN
    /\ regions' = SelectSeq(regions, LAMBDA r : r.id # id)
    /\ activeRegionId' = IF variant # "firestore" /\ activeRegionId = id
                           THEN 0 ELSE activeRegionId
    /\ OpFrame
    /\ UNCHANGED <<files, isSheetEnabled, spreadsheetId, accessToken,
                   isDetecting, detecting>>

\* (mutant) a rename without the test of the id
RenamedAll(rs, id, name) ==
  [j \in 1..Len(rs) |-> [rs[j] EXCEPT !.name = name]]

\* prev.map(r => r.id === id ? { ...r, name } : r)
Renamed(rs, id, name) ==
  [j \in 1..Len(rs) |->
     IF rs[j].id = id THEN [rs[j] EXCEPT !.name = name] ELSE rs[j]]

\* updateRegionName(id, name) / the inline name input (firestore)
UpdateRegionName ==
  \E k \in 1..Len(regions) : \E name \in TypedNames :
    /\ name # regions[k].name
    /\ regions' = Renamed(regions, regions[k].id, name)
    /\ OpFrame
    /\ UNCHANGED <<files, activeRegionId, isSheetEnabled, spreadsheetId,
                   accessToken, isDetecting, detecting>>

\* a canvas event leaves everything but the drag state and the registry
CanvasFrame ==
  /\ Len(files) > 0
  /\ UNCHANGED <<variant, detection, files, isProcessing, isSheetEnabled, spreadsheetId,
                 accessToken, pc, i, runFiles, runRegions, runSheetOn, result,
                 visited, outcome, alert, ops, isDetecting, detecting,
                 sheetSync, batchId, runBatchId, runHints, sideVars>>

\* DocumentCanvas.handleMouseDown at pointer position p
HandleMouseDown ==
  \E p \in Points :
    /\ Len(regions) < MaxDrawn
    /\ startPos' = p
    /\ currentPos' = p
    /\ isDrawing' = TRUE
    /\ CanvasFrame
    /\ UNCHANGED <<regions, activeRegionId, drawn>>

\* DocumentCanvas.handleMouseMove at pointer position p
HandleMouseMove ==
  \E p \in Points :
    /\ isDrawing
    /\ currentPos' = p
    /\ CanvasFrame
    /\ UNCHANGED <<regions, activeRegionId, drawn, isDrawing, startPos>>

\* DocumentCanvas.handleMouseUp
HandleMouseUp ==
  /\ CanvasFrame
  /\ IF ~isDrawing \/ startPos = NoPoint \/ currentPos = NoPoint
       THEN /\ isDrawing' = FALSE
            /\ UNCHANGED <<regions, activeRegionId, drawn, startPos, currentPos>>
       ELSE LET width == Abs(currentPos.x - startPos.x)
                height == Abs(currentPos.y - startPos.y)
                newRegion == RegionAt(drawn + 1, FieldName(Len(regions) + 1),
                                      Min(startPos.x, currentPos.x),
                                      Min(startPos.y, currentPos.y),
                                      width, height) IN
            /\ IF BigEnough(width, height)
                 THEN /\ regions' = Append(regions, newRegion)
                      /\ activeRegionId' = newRegion.id
                      /\ drawn' = drawn + 1
                 ELSE UNCHANGED <<regions, activeRegionId, drawn>>
            /\ isDrawing' = FALSE
            /\ startPos' = NoPoint
            /\ currentPos' = NoPoint

\* the Google Sheets Sync switch (sheets)
ToggleSheet ==
  /\ variant = "sheets"
  /\ isSheetEnabled' = ~isSheetEnabled
  /\ OpFrame
  /\ UNCHANGED <<files, regions, activeRegionId, spreadsheetId, accessToken,
                 isDetecting, detecting>>

\* the Spreadsheet ID and Access Token inputs, shown while the switch is on
SetSpreadsheetId ==
  /\ variant = "sheets" /\ isSheetEnabled
  /\ \E s \in {"", "sheet"} : s # spreadsheetId /\ spreadsheetId' = s
  /\ OpFrame
  /\ UNCHANGED <<files, regions, activeRegionId, isSheetEnabled, accessToken,
                 isDetecting, detecting>>

SetAccessToken ==
  /\ variant = "sheets" /\ isSheetEnabled
  /\ \E t \in {"", "token"} : t # accessToken /\ accessToken' = t
  /\ OpFrame
  /\ UNCHANGED <<files, regions, activeRegionId, isSheetEnabled, spreadsheetId,
                 isDetecting, detecting>>

\* the AI Context Hints box (firestore, lite)
SetAiHints ==
  /\ variant # "sheets"
  /\ ops < MaxOps
  /\ ops' = ops + 1
  /\ aiHints' = IF aiHints = "" THEN "hint" ELSE ""
  /\ outcome' = "none"
  /\ alert' = "none"
  /\ Rerender
  /\ UNCHANGED <<variant, detection, files, regions, activeRegionId, isProcessing,
                 isSheetEnabled, spreadsheetId, accessToken, pc, i, runFiles,
                 runRegions, runSheetOn, runBatchId, runHints, result, visited,
                 isDetecting, detecting, canvasVars, sheetSync, exported,
                 replay, uploads>>

\* the pipeline: the orchestrator, the queue handlers and the sheet
\* settings, over a registry drawn before the first upload
Next ==
  \/ ProcessAllFiles
  \/ ExtractDone
  \/ SyncDone
  \/ HandleFileUpload
  \/ RemoveFile
  \/ ToggleSheet

Spec == Init /\ [][Next]_vars

\* The pipeline with at most MaxLiveOps operator actions, for the check of
\* termination.
NextLive ==
  \/ ProcessAllFiles
  \/ ExtractDone
  \/ SyncDone
  \/ (ops < MaxLiveOps /\ HandleFileUpload)
  \/ (ops < MaxLiveOps /\ RemoveFile)
  \/ (ops < MaxLiveOps /\ ToggleSheet)

(* ------------------------------ export ------------------------------- *)
\* .filter(f => f.extractedData) in sheets and lite,
\* .filter(f => f.status === 'completed') in firestore
ExportFilter(v, f) ==
  IF v = "firestore" THEN f.status = "completed"
  ELSE f.extractedData # NoData

\* `"${cell.replace(/"/g, '""')}"`: the cell between double quotes (the
\* values of the model hold no double quote to double)
CsvCell(c) == "\"" \o c \o "\""

\* the data rows of the CSV, before they are joined with commas: one per
\* file the filter keeps, the quoted cells of the regions in registry
\* order, after the file name in firestore
ExportRows(v, fs, rs) ==
  LET kept == SelectSeq(fs, LAMBDA f : ExportFilter(v, f)) IN
  [k \in 1..Len(kept) |->
     (IF v = "firestore" THEN <<FileName>> ELSE <<>>)
       \o [c \in 1..Len(rs) |->
             CsvCell(Cell(kept[k].extractedData, rs[c].name))]]

\* exportToCSV / exportAsCSV: reads files and regions, builds the rows and
\* hands them to the browser as a download; firestore alerts and returns
\* when no file is completed
ExportToCSV ==
  /\ exported.count < MaxExports
  /\ IF variant = "firestore"
        /\ \A k \in 1..Len(files) : files[k].status # "completed"
       THEN /\ alert' = "nothing to export"
            /\ exported' = exported
       ELSE /\ alert' = alert
            /\ exported' = [count |-> exported.count + 1,
                            rows |-> ExportRows(variant, files, regions)]
  /\ UNCHANGED <<variant, detection, files, regions, activeRegionId, isProcessing,
                 isSheetEnabled, spreadsheetId, accessToken, pc, i, runFiles,
                 runRegions, runSheetOn, runBatchId, runHints, result, visited,
                 outcome,
                 ops, isDetecting, detecting, canvasVars, sheetSync, batchId,
                 replay, uploads, aiHints>>

(* ------------------- syncToGoogleSheets (firestore) ------------------- *)
\* what the operator answers to the two prompts
PromptAnswers == {"", "sheet"}

\* the entries a queue of the firestore variant holds after runs: pending,
\* completed and saved, completed and not saved, failed
BatchFiles ==
  { NewFile("firestore"),
    [NewFile("firestore") EXCEPT !.status = "completed", !.syncStatus = "synced",
       !.extractedData = [src |-> "own", keys |-> <<"Field 1", "Field 2">>,
                          hints |-> ""]],
    [NewFile("firestore") EXCEPT !.status = "completed", !.syncStatus = "failed",
       !.extractedData = [src |-> "own", keys |-> <<"Field 1", "Field 2">>,
                          hints |-> ""]],
    [NewFile("firestore") EXCEPT !.status = "error",
       !.error = "Extraction failed"] }

\* if (file.status === 'completed' && file.extractedData), negated, and
\* the row built from the file, for every file of the queue the call
\* captured together with the registry rs
NoRow(fs, rs) ==
  [k \in 1..Len(fs) |->
     [skip |-> ~(fs[k].status = "completed" /\ fs[k].extractedData # NoData),
      row |-> BatchRowData(fs[k], rs)]]

\* the for-of loop from position `from`: the next append, or the final alert
NextAppend(rf, from) ==
  LET j == NextIndex(rf, from) IN
  IF j <= Len(rf)
    THEN [pc |-> "append", idx |-> j, files |-> rf, report |-> "syncing"]
    ELSE [pc |-> "idle", idx |-> 0, files |-> <<>>, report |-> "complete"]

\* what the batch sync leaves alone: it reads the queue and writes nothing
SheetSyncFrame ==
  UNCHANGED <<variant, detection, files, regions, activeRegionId, isProcessing,
              isSheetEnabled, spreadsheetId, accessToken, pc, i, runFiles,
              runRegions, runSheetOn, result, visited, alert, ops,
              isDetecting, detecting, canvasVars, batchId, runBatchId,
              runHints, sideVars>>

\* syncToGoogleSheets up to its first await: the two prompts, the first
\* alert, the loop to the first completed file
SyncToGoogleSheets ==
  /\ variant = "firestore"
  /\ sheetSync.pc # "append"
  /\ outcome' = "none"
  /\ \E sid \in PromptAnswers, tok \in PromptAnswers :
       sheetSync' = IF sid = "" \/ tok = ""
                      THEN sheetSync
                      ELSE NextAppend(NoRow(files, regions), 1)
  /\ SheetSyncFrame

\* await appendToGoogleSheet settled with outcome o: the returned boolean is
\* dropped, a rejection leaves the function (no catch), the loop goes on
AppendSettles(o) ==
  sheetSync' = IF o = "throw"
                 THEN [sheetSync EXCEPT !.pc = "aborted"]
                 ELSE NextAppend(sheetSync.files, sheetSync.idx + 1)

AppendDone ==
  /\ sheetSync.pc = "append"
  /\ \E o \in SheetOutcomes :
       /\ outcome' = o
       /\ AppendSettles(o)
  /\ SheetSyncFrame

\* the Sync to Sheets action over the queues a batch can have produced
InitSheetBatch ==
  /\ variant = "firestore"
  /\ files \in UNION { [1..n -> BatchFiles] : n \in 0..MaxQueue }
  /\ regions = <<Region(1, "Field 1"), Region(2, "Field 2")>>
  /\ activeRegionId = 2
  /\ isProcessing = FALSE
  /\ isSheetEnabled = FALSE
  /\ spreadsheetId = ""
  /\ accessToken = ""
  /\ pc = "idle"
  /\ i = 0
  /\ runFiles = <<>>
  /\ runRegions = <<>>
  /\ runSheetOn = FALSE
  /\ result = NoData
  /\ visited = <<>>
  /\ outcome = "none"
  /\ alert = "none"
  /\ ops = 0
  /\ isDetecting = FALSE
  /\ detecting = 0
  /\ isDrawing = FALSE
  /\ startPos = NoPoint
  /\ currentPos = NoPoint
  /\ drawn = 2
  /\ sheetSync = NoSheetSync
  /\ batchId = NewBatchId(variant)
  /\ runBatchId = ""
  /\ aiHints = ""
  /\ detection = NoDetection
  /\ runHints = ""
  /\ exported = NoExport
  /\ replay = NoReplay
  /\ uploads = <<>>

NextSheetBatch ==
  \/ SyncToGoogleSheets
  \/ AppendDone

SpecSheetBatch == InitSheetBatch /\ [][NextSheetBatch]_vars

\* The Field Registry: the canvas, the registry controls and auto-detection,
\* from an empty registry, with no run in progress
InitRegistry ==
  /\ variant \in Variants
  /\ files = <<>>
  /\ regions = <<>>
  /\ activeRegionId = 0
  /\ isProcessing = FALSE
  /\ isSheetEnabled = FALSE
  /\ spreadsheetId = ""
  /\ accessToken = ""
  /\ pc = "idle"
  /\ i = 0
  /\ runFiles = <<>>
  /\ runRegions = <<>>
  /\ runSheetOn = FALSE
  /\ result = NoData
  /\ visited = <<>>
  /\ outcome = "none"
  /\ alert = "none"
  /\ ops = 0
  /\ isDetecting = FALSE
  /\ detecting = 0
  /\ isDrawing = FALSE
  /\ startPos = NoPoint
  /\ currentPos = NoPoint
  /\ drawn = 0
  /\ sheetSync = NoSheetSync
  /\ batchId = NewBatchId(variant)
  /\ runBatchId = ""
  /\ aiHints = ""
  /\ detection = NoDetection
  /\ runHints = ""
  /\ exported = NoExport
  /\ replay = NoReplay
  /\ uploads = <<>>

NextRegistry ==
  \/ HandleFileUpload
  \/ HandleManualAutoDetect
  \/ DetectDone
  \/ HandleMouseDown
  \/ HandleMouseMove
  \/ HandleMouseUp
  \/ UpdateRegionName
  \/ DeleteRegion

SpecRegistry == InitRegistry /\ [][NextRegistry]_vars

\* The pipeline under every outcome of the extraction service, the {} of an
\* unparsable response included; the operator only uploads and runs.
NextExtract ==
  \/ HandleFileUpload
  \/ ProcessAllFiles
  \/ ExtractDone
  \/ ExtractDoneUnparsable
  \/ SyncDone

SpecExtract == Init /\ [][NextExtract]_vars

\* The pipeline and uploads, those of firestore prepared in the background
NextUpload ==
  \/ HandleFileUpload
  \/ BeginUpload
  \/ UploadPrepared
  \/ ProcessAllFiles
  \/ ExtractDone
  \/ SyncDone

SpecUpload == Init /\ [][NextUpload]_vars

\* The pipeline and the export control
NextExport ==
  \/ HandleFileUpload
  \/ ProcessAllFiles
  \/ ExtractDone
  \/ SyncDone
  \/ ToggleSheet
  \/ ExportToCSV

SpecExport == Init /\ [][NextExport]_vars

(* ------------------ the canvas at two display sizes ------------------- *)
\* Percent coordinates are quotients of pixel distances.  The model keeps
\* them as fractions in lowest terms, so that two coordinates are equal
\* exactly when the quotients are.
RECURSIVE Gcd(_, _)
Gcd(a, b) == IF b = 0 THEN a ELSE Gcd(b, a % b)

Frac(n, d) ==
  LET g == Gcd(Abs(n), d) IN [n |-> n \div g, d |-> d \div g]

FracSub(a, b) == Frac(a.n * b.d - b.n * a.d, a.d * b.d)
FracAbs(a) == [n |-> Abs(a.n), d |-> a.d]
FracLess(a, b) == a.n * b.d < b.n * a.d
FracMin(a, b) == IF FracLess(b, a) THEN b ELSE a

\* (mutant) a conversion that forgets where the container starts
PercentOfNoOffset(client, origin, size) == Frac(100 * client, size)

\* ((e.clientX - rect.left) / rect.width) * 100
PercentOf(client, origin, size) == Frac(100 * (client - origin), size)

\* a pointer path is given in sixths of the container
RelCoords == {0, 1, 2, 6}
RelPoints == { [x |-> a, y |-> b] : a \in RelCoords, b \in RelCoords }

\* getBoundingClientRect() of the container at three display sizes, each a
\* whole number of pixels to the sixth
Rects ==
  { [left |-> 0, top |-> 0, width |-> 60, height |-> 120],
    [left |-> 8, top |-> 40, width |-> 120, height |-> 60],
    [left |-> 13, top |-> 7, width |-> 300, height |-> 42] }

\* the clientX / clientY of the pointer at relative position rel
ClientPoint(rect, rel) ==
  [x |-> rect.left + rel.x * (rect.width \div 6),
   y |-> rect.top + rel.y * (rect.height \div 6)]

\* handleMouseDown at s, handleMouseMove to e, handleMouseUp, in the
\* container rect: the {x, y, width, height} of the Region appended, or no
\* Region
ReplayDrag(rect, s, e) ==
  LET cs == ClientPoint(rect, s)
      ce == ClientPoint(rect, e)
      sx == PercentOf(cs.x, rect.left, rect.width)
      sy == PercentOf(cs.y, rect.top, rect.height)
      cx == PercentOf(ce.x, rect.left, rect.width)
      cy == PercentOf(ce.y, rect.top, rect.height)
      width == FracAbs(FracSub(cx, sx))
      height == FracAbs(FracSub(cy, sy)) IN
  IF FracLess(Frac(MinSize, 1), width) /\ FracLess(Frac(MinSize, 1), height)
    THEN << [x |-> FracMin(sx, cx), y |-> FracMin(sy, cy),
             width |-> width, height |-> height] >>
    ELSE <<>>

ReplayFrame ==
  UNCHANGED <<variant, detection, files, regions, activeRegionId, isProcessing,
              isSheetEnabled, spreadsheetId, accessToken, pc, i, runFiles,
              runRegions, runSheetOn, runBatchId, runHints, result, visited,
              outcome,
              alert, ops, isDetecting, detecting, canvasVars, sheetSync,
              batchId, exported, uploads, aiHints>>

\* the drag is made on the canvas displayed at size A
CommitAtA ==
  /\ ~replay.doneA
  /\ replay' = [replay EXCEPT !.doneA = TRUE,
                   !.regionA = ReplayDrag(replay.rectA, replay.s, replay.e)]
  /\ ReplayFrame

\* the same relative path is replayed on the canvas displayed at size B
CommitAtB ==
  /\ ~replay.doneB
  /\ replay' = [replay EXCEPT !.doneB = TRUE,
                   !.regionB = ReplayDrag(replay.rectB, replay.s, replay.e)]
  /\ ReplayFrame

InitReplay ==
  /\ variant \in Variants
  /\ files = <<NewFile(variant)>>
  /\ regions = <<>>
  /\ activeRegionId = 0
  /\ isProcessing = FALSE
  /\ isSheetEnabled = FALSE
  /\ spreadsheetId = ""
  /\ accessToken = ""
  /\ pc = "idle"
  /\ i = 0
  /\ runFiles = <<>>
  /\ runRegions = <<>>
  /\ runSheetOn = FALSE
  /\ result = NoData
  /\ visited = <<>>
  /\ outcome = "none"
  /\ alert = "none"
  /\ ops = 0
  /\ isDetecting = FALSE
  /\ detecting = 0
  /\ isDrawing = FALSE
  /\ startPos = NoPoint
  /\ currentPos = NoPoint
  /\ drawn = 0
  /\ sheetSync = NoSheetSync
  /\ batchId = NewBatchId(variant)
  /\ runBatchId = ""
  /\ aiHints = ""
  /\ detection = NoDetection
  /\ runHints = ""
  /\ exported = NoExport
  /\ uploads = <<>>
  /\ replay \in { [rectA |-> a, rectB |-> b, s |-> s, e |-> e,
                    doneA |-> FALSE, regionA |-> <<>>,
                    doneB |-> FALSE, regionB |-> <<>>] :
                     a \in Rects, b \in Rects,
                     s \in RelPoints, e \in RelPoints }

NextReplay ==
  \/ CommitAtA
  \/ CommitAtB

SpecReplay == InitReplay /\ [][NextReplay]_vars

\* The pipeline while the operator edits what a run reads: the registry,
\* the hints and the sheet switch
NextSnapshot ==
  \/ ProcessAllFiles
  \/ ExtractDone
  \/ SyncDone
  \/ /\ ops < MaxEdits
     /\ \/ HandleFileUpload
        \/ UpdateRegionName
        \/ DeleteRegion
        \/ ToggleSheet
        \/ SetAiHints

SpecSnapshot == Init /\ [][NextSnapshot]_vars

\* The registry under uploads, the detection they start and the canvas:
\* the operator never asks for detection
NextSeed ==
  \/ HandleFileUpload
  \/ DetectDone
  \/ HandleMouseDown
  \/ HandleMouseMove
  \/ HandleMouseUp

SpecSeed == InitRegistry /\ [][NextSeed]_vars

\* The registry under the canvas and the delete control alone: regions are
\* only ever drawn and deleted, never detected or renamed.
NextCanvas ==
  \/ HandleFileUpload
  \/ HandleMouseDown
  \/ HandleMouseMove
  \/ HandleMouseUp
  \/ DeleteRegion

SpecCanvas == InitRegistry /\ [][NextCanvas]_vars

\* Every collaborator call eventually resolves or rejects: a suspended run
\* is eventually resumed.  The operator's handlers are under no obligation.
SpecLive ==
  Init /\ [][NextLive]_vars /\ WF_vars(ExtractDone) /\ WF_vars(SyncDone)

(* ====================================================================== *)
(* Properties                                                             *)
(* ====================================================================== *)
\* what the code holds of a queue entry
State(f) == [status |-> f.status, syncStatus |-> f.syncStatus,
             extractedData |-> f.extractedData, error |-> f.error]

States(fs) == [k \in 1..Len(fs) |-> State(fs[k])]

\* a step of the suspended run (a settled await) / of an operator handler /
\* of the Run Automation click
RunStep == pc # "idle" /\ ops' = ops
OperatorStep == ops' # ops
ClickStep == pc = "idle" /\ ops' = ops

\* the entry at the loop's index is the file the loop is working on
Aligned == i \in 1..Len(files) /\ files[i].slot = i

\* no captured file has left the queue since the run captured it
Undisturbed ==
  /\ Len(files) >= Len(runFiles)
  /\ \A k \in 1..Len(runFiles) : files[k].slot = k

\* the captured indices up to n that the skip rule does not skip, in order
RECURSIVE Taken(_, _)
Taken(rf, n) ==
  IF n = 0 THEN <<>>
  ELSE IF rf[n].skip THEN Taken(rf, n - 1)
  ELSE Append(Taken(rf, n - 1), n)

Statuses(fs) == [k \in 1..Len(fs) |-> fs[k].status]

NumProcessing(fs) == Cardinality({k \in 1..Len(fs) : fs[k].status = "processing"})

\* a sync collaborator is configured
SyncConfigured ==
  IF variant = "sheets" THEN isSheetEnabled ELSE variant = "firestore"

(* ---------------------------------------------------------------------- *)
\* C1  Partial-failure isolation.  In a run whose captured files all stay in
\* the queue: the files taken up so far are exactly the captured files the
\* skip rule does not skip, in queue order; when a file's extraction fails
\* its status becomes error, when it succeeds its status becomes completed;
\* whatever the outcome the loop goes on to the next file that is not
\* skipped (or ends when there is none) and leaves every other entry as it
\* is, so an error stays to the end of the run.
C1_Step ==
  LET j == NextIndex(runFiles, i + 1) IN
  /\ visited = Taken(runFiles, i)
  /\ Undisturbed =>
       /\ (pc = "extract" /\ outcome' = "throw") => files'[i].status = "error"
       /\ (pc = "extract" /\ outcome' = "ok") => files'[i].status = "completed"
       /\ \A k \in 1..Len(files) :
            (k # i /\ k # j) => State(files'[k]) = State(files[k])
  /\ IF pc' = "sync" THEN pc = "extract" /\ outcome' = "ok" /\ i' = i
     ELSE IF j <= Len(runFiles)
       THEN /\ pc' = "extract" /\ i' = j /\ visited' = Append(visited, j)
            /\ Undisturbed => files'[j].status = "processing"
       ELSE pc' = "idle" /\ ~isProcessing'

C1_PartialFailureIsolation == [][RunStep => C1_Step]_vars

\* the run over [A,B,C] in which B's extraction failed has just ended
C1_Witness ==
  /\ pc = "idle" /\ outcome # "none"
  /\ Statuses(files) = <<"completed", "error", "completed">>
  /\ files[1].extractedData.src = "own"
  /\ files[2].extractedData = NoData
  /\ files[3].extractedData.src = "own"

(* ---------------------------------------------------------------------- *)
\* C2  Run Automation clicked while the Field Registry is empty raises the
\* configuration alert and nothing else: no file changes, isProcessing
\* stays false, no file is taken up and no call is started.
C2_EmptyRegistryRefused ==
  [][(ClickStep /\ Len(regions) = 0) =>
       /\ alert' = "config"
       /\ files' = files
       /\ ~isProcessing /\ ~isProcessing'
       /\ pc' = "idle" /\ visited' = <<>> /\ runFiles' = <<>>]_vars

\* the alert is up over a non-empty queue that nothing has touched
C2_Witness ==
  /\ alert = "config" /\ Len(regions) = 0 /\ ~isProcessing
  /\ Len(files) >= 2
  /\ \A k \in 1..Len(files) : State(files[k]) = State(NewFile(variant))

(* ---------------------------------------------------------------------- *)
\* C3  Busy guard: no operator step takes an entry whose status is
\* processing out of the queue.
C3_BusyGuard ==
  [][OperatorStep =>
       \A k \in 1..Len(files) :
         (Len(files') < Len(files) /\ files' = FilterOut(files, k))
            => files[k].status # "processing"]_vars

(* ---------------------------------------------------------------------- *)
\* C4  extractedData is present if and only if status is completed.
C4_DataIffCompleted ==
  \A k \in 1..Len(files) :
    (files[k].extractedData # NoData) <=> (files[k].status = "completed")

(* ---------------------------------------------------------------------- *)
\* C5  At most one file has status processing, and at most one collaborator
\* call is outstanding (the run is at one await of one file).
C5_OneAtATime ==
  /\ NumProcessing(files) <= 1
  /\ pc \in {"idle", "extract", "sync"}
  /\ pc # "idle" => i \in 1..Len(runFiles)

(* ---------------------------------------------------------------------- *)
\* C6  Every write of the run lands on the entry of the file it is made
\* for: a run step changes the state of an entry only if that entry is the
\* file at the loop's index before the step (its settled stage) or after
\* the step (marked processing).
C6_WritesKeyedByIdentity ==
  [][(ops' = ops /\ Len(files') = Len(files)) =>
       \A k \in 1..Len(files) :
         State(files'[k]) # State(files[k]) =>
           \/ pc # "idle" /\ files[k].slot = i
           \/ pc' # "idle" /\ files'[k].slot = i']_vars

(* ---------------------------------------------------------------------- *)
\* C7  Idempotence of the skip rule: on a queue in which every file is
\* completed and, when sync is configured, synced, Run Automation takes up
\* no file, starts no call and leaves every file as it is.
AllSettled ==
  \A k \in 1..Len(files) :
    /\ files[k].status = "completed"
    /\ SyncConfigured => files[k].syncStatus = "synced"

C7_SkipIdempotent ==
  [][(ClickStep /\ Len(regions) > 0 /\ AllSettled) =>
       /\ files' = files
       /\ pc' = "idle" /\ ~isProcessing'
       /\ visited' = <<>> /\ runFiles' = <<>>]_vars

\* a fully successful run with sync has ended and the button is enabled
C7_Witness ==
  /\ pc = "idle" /\ Len(files) >= 2 /\ AllSettled /\ SyncConfigured
  /\ ~RunDisabled(variant, isProcessing, files, regions)
  /\ \A k \in 1..Len(files) : files[k].extractedData.src = "own"

(* ---------------------------------------------------------------------- *)
\* C8  Skip rule: a run skips a file exactly when it is completed and (no
\* sync collaborator is configured or it is synced); the run therefore
\* takes up, first, the first file of the queue that this rule does not
\* skip.
ClaimedSkip(f) ==
  f.status = "completed" /\ (~SyncConfigured \/ f.syncStatus = "synced")

C8_SkipRule ==
  [][(ClickStep /\ Len(regions) > 0) =>
       LET todo == {k \in 1..Len(files) : ~ClaimedSkip(files[k])} IN
       IF todo = {} THEN pc' = "idle"
       ELSE /\ pc' = "extract"
            /\ i' = CHOOSE k \in todo : \A m \in todo : k <= m
            /\ \A k \in 1..Len(files) : runFiles'[k].skip = ClaimedSkip(files[k])]_vars

(* ---------------------------------------------------------------------- *)
\* C9  When the extraction of a file throws, the run sets that file's
\* status to error and its error message, and its sync status to failed in
\* the variants that have a sync stage, and goes on to the next file.
C9_ExtractionFailure ==
  [][(RunStep /\ pc = "extract" /\ outcome' = "throw" /\ Aligned) =>
       /\ files'[i].status = "error"
       /\ files'[i].error # NoError
       /\ variant \in {"sheets", "firestore"} => files'[i].syncStatus = "failed"
       /\ pc' = "idle" \/ (pc' = "extract" /\ i' > i)]_vars

(* ---------------------------------------------------------------------- *)
\* C10  A sync call that throws is treated like one that returns false: the
\* file keeps status completed, its extractedData and its error field, its
\* sync status becomes failed, and the run goes on; a call that returns
\* true sets sync status to synced.
C10_SyncFailure ==
  [][(RunStep /\ pc = "sync" /\ Aligned) =>
       /\ files'[i].status = "completed"
       /\ files'[i].extractedData = files[i].extractedData
       /\ files'[i].error = files[i].error
       /\ files'[i].syncStatus = IF outcome' = "true" THEN "synced" ELSE "failed"
       /\ pc' = "idle" \/ (pc' = "extract" /\ i' > i)]_vars

(* ---------------------------------------------------------------------- *)
\* C11  With no sync collaborator configured (lite; sheets with the switch
\* off, at the click and now) no step of a run changes the sync status of
\* any file, whether the extraction succeeds or fails.
C11_SyncStatusUntouched ==
  [][(ops' = ops /\ ~SyncConfigured /\ ~runSheetOn) =>
       \A k \in 1..Len(files) : files'[k].syncStatus = files[k].syncStatus]_vars

(* ---------------------------------------------------------------------- *)
\* C13  Whenever no run is in progress (isProcessing is false) no file of
\* the queue has status processing or sync status syncing, whatever the
\* operator did during the run and however the collaborator calls settled.
C13_NothingLeftInFlight ==
  ~isProcessing =>
    \A k \in 1..Len(files) :
      files[k].status # "processing" /\ files[k].syncStatus # "syncing"

StatusEdges ==
  { <<"pending", "processing">>, <<"processing", "completed">>,
    <<"processing", "error">> }

C15_StatusMachine ==
  [][Len(files') >= Len(files) =>
       \A k \in 1..Len(files) :
         \/ files'[k].status = files[k].status
         \/ <<files[k].status, files'[k].status>> \in StatusEdges]_vars

(* ---------------------------------------------------------------------- *)
\* C16  No step moves a file from status error to status processing.
C16_ErrorNotRetried ==
  [][Len(files') >= Len(files) =>
       \A k \in 1..Len(files) :
         files[k].status = "error" => files'[k].status # "processing"]_vars

(* ---------------------------------------------------------------------- *)
\* C17  The sync axis advances only on a completed file: a file whose sync
\* status is syncing or synced has status completed.
C17_SyncOnlyWhenCompleted ==
  \A k \in 1..Len(files) :
    files[k].syncStatus \in {"syncing", "synced"} => files[k].status = "completed"

(* ---------------------------------------------------------------------- *)
\* C18  commitDrag (handleMouseUp ending a drag): a Region is appended if
\* and only if the drag is more than 1 percent wide and more than 1 percent
\* high; the new Region has the drag's width and height and becomes the
\* active one; otherwise the registry and the active selection stay as they
\* are; the drag state is cleared in both cases.
C18_CommitDrag ==
  [][(isDrawing /\ ~isDrawing') =>
       LET w == Abs(currentPos.x - startPos.x)
           h == Abs(currentPos.y - startPos.y)
           n == Len(regions) IN
       /\ IF w > 1 /\ h > 1
            THEN /\ Len(regions') = n + 1
                 /\ SubSeq(regions', 1, n) = regions
                 /\ regions'[n + 1].width = w /\ regions'[n + 1].width > 1
                 /\ regions'[n + 1].height = h /\ regions'[n + 1].height > 1
                 /\ activeRegionId' = regions'[n + 1].id
            ELSE regions' = regions /\ activeRegionId' = activeRegionId
       /\ startPos' = NoPoint /\ currentPos' = NoPoint]_vars

\* a drag of 2 by 2 percent, the smallest the canvas events of the model
\* allow above the threshold, has been committed
C18_Witness ==
  /\ ~isDrawing /\ startPos = NoPoint /\ drawn > 0
  /\ \E k \in 1..Len(regions) :
       /\ regions[k].id = activeRegionId
       /\ regions[k].width = 2 /\ regions[k].height = 2

(* ---------------------------------------------------------------------- *)
\* C19  Every Region of the Field Registry is more than 1 percent wide and
\* high and lies within the page: x, y, x + width and y + height are in
\* [0,100].
C19_RegionsWellFormed ==
  \A k \in 1..Len(regions) :
    /\ regions[k].width > 1 /\ regions[k].height > 1
    /\ regions[k].x >= 0 /\ regions[k].x + regions[k].width <= 100
    /\ regions[k].y >= 0 /\ regions[k].y + regions[k].height <= 100

(* ---------------------------------------------------------------------- *)
\* C20  No two Regions of the Field Registry have the same name.
C20_NamesUnique ==
  \A j, k \in 1..Len(regions) :
    j # k => regions[j].name # regions[k].name

(* ---------------------------------------------------------------------- *)
\* C12  A spreadsheet append that fails (returns false or throws) for one
\* file is recorded on that file (its sync status becomes failed), and the
\* batch Sync to Sheets action then
\* goes on to the append of the next completed file or, after the last one,
\* to its completion report.
C12_AppendFailureIsolated ==
  [][(sheetSync.pc = "append") =>
       LET k == sheetSync.idx
           j == NextIndex(sheetSync.files, k + 1) IN
       /\ outcome' # "true" => files'[k].syncStatus = "failed"
       /\ IF j <= Len(sheetSync.files)
            THEN sheetSync'.pc = "append" /\ sheetSync'.idx = j
            ELSE sheetSync'.report = "complete"]_vars

(* ---------------------------------------------------------------------- *)
\* C21  When a drag is committed, the name given to the new Region is not
\* the name of any Region already in the registry, whatever regions were
\* drawn and deleted before, and the new Region becomes the active one.
C21_FreshFieldName ==
  [][Len(regions') = Len(regions) + 1 /\ isDrawing
       => LET new == regions'[Len(regions')] IN
            /\ \A k \in 1..Len(regions) : regions[k].name # new.name
            /\ activeRegionId' = new.id]_vars

(* ---------------------------------------------------------------------- *)
\* C22  The active selection is empty or is the id of a Region that is in
\* the Field Registry: no operation, the delete control of any variant
\* included, leaves it naming a Region that is gone.
C22_ActiveRegionInRegistry ==
  activeRegionId = 0 \/ \E k \in 1..Len(regions) : regions[k].id = activeRegionId

(* ---------------------------------------------------------------------- *)
\* C23  Every completed file holds extracted data with one entry for every
\* region name of the registry it was processed with, whatever the
\* extraction service resolved with, an unparsable response included.
C23_DataCoversRegistry ==
  \A k \in 1..Len(files) :
    files[k].status = "completed"
      => /\ files[k].extractedData # NoData
         /\ files[k].extractedData.keys = RegionNames(regions)

(* ---------------------------------------------------------------------- *)
\* C24  The row of every outstanding call of the spreadsheet collaborator
\* has one value per Region of the registry, in registry order: the file's
\* extracted value for that Region, or the empty string.  This is so in the
\* sheet stage of a run and in the batch sync.
C24_RowAligned ==
  /\ variant = "sheets" /\ pc = "sync"
       => RowData(result, runRegions)
            = [k \in 1..Len(regions) |-> Cell(result, regions[k].name)]
  /\ sheetSync.pc = "append"
       => sheetSync.files[sheetSync.idx].row
            = [k \in 1..Len(regions) |->
                 Cell(files[sheetSync.idx].extractedData, regions[k].name)]

(* ---------------------------------------------------------------------- *)
\* C25  An export yields one row for every completed file of the queue, in
\* queue order, and no row for a file in another status; a row has one
\* cell per Region in registry order, the file's extracted value for the
\* Region or an empty cell; the export changes no file and no Region.
C25_ExportProjection ==
  [][exported'.count = exported.count + 1
       => LET done == SelectSeq(files, LAMBDA f : f.status = "completed") IN
          /\ exported'.rows
               = [k \in 1..Len(done) |->
                    [c \in 1..Len(regions) |->
                       CsvCell(Cell(done[k].extractedData, regions[c].name))]]
          /\ files' = files
          /\ regions' = regions]_vars

(* ---------------------------------------------------------------------- *)
\* C26  The batchId never changes after App has mounted, and every
\* outstanding call of the persistence collaborator carries the batchId
\* the session started with.
C26_OneBatchId ==
  [][/\ batchId' = batchId
     /\ variant = "firestore" /\ pc' = "sync"
          => runBatchId' = NewBatchId(variant)]_vars

\* a save is outstanding for one file after the save of another file has
\* succeeded
C26_Witness ==
  /\ variant = "firestore"
  /\ pc = "sync"
  /\ runBatchId = batchId
  /\ \E k \in 1..Len(files) : k # i /\ files[k].syncStatus = "synced"

C28_DragGeometry ==
  [][/\ isDrawing /\ ~isDrawing' /\ Len(regions') = Len(regions) + 1
          => LET r == regions'[Len(regions')]
                 s == startPos
                 e == currentPos IN
             /\ r.width = IF e.x >= s.x THEN e.x - s.x ELSE s.x - e.x
             /\ r.height = IF e.y >= s.y THEN e.y - s.y ELSE s.y - e.y
             /\ r.x <= s.x /\ r.x <= e.x /\ r.x \in {s.x, e.x}
             /\ r.y <= s.y /\ r.y <= e.y /\ r.y \in {s.y, e.y}
     /\ isDrawing /\ isDrawing' /\ currentPos' # currentPos
          => regions' = regions]_vars

\* the registry holds the Region of a drag between (0,0) and (3,3) and the
\* Region of a drag between (1,1) and (3,3), and no drag is under way
C28_Witness ==
  /\ ~isDrawing
  /\ \E j \in 1..Len(regions), k \in 1..Len(regions) :
       /\ regions[j].x = 0 /\ regions[j].y = 0
       /\ regions[j].width = 3 /\ regions[j].height = 3
       /\ regions[k].x = 1 /\ regions[k].y = 1
       /\ regions[k].width = 2 /\ regions[k].height = 2

(* ---------------------------------------------------------------------- *)
\* C29  While a call of the extraction collaborator is outstanding for a
\* file, the queue entry of that file, as long as the queue has it, shows
\* status processing.
C29_ProcessingShown ==
  pc = "extract"
    => \A k \in 1..Len(files) :
         files[k].slot = i => files[k].status = "processing"

(* ---------------------------------------------------------------------- *)
\* C30  An upload puts its files at the end of the queue, in the order they
\* were chosen, each pending, with the initial sync status and with no
\* extracted data and no error, and leaves the entries the queue had, and
\* their order, as they were; a run in progress or another upload under
\* preparation makes no difference.
C30_EnqueueAppends ==
  [][Len(files') > Len(files)
       => LET n == Len(files') - Len(files) IN
          /\ SubSeq(files', 1, Len(files)) = files
          /\ \A k \in Len(files) + 1..Len(files') :
               /\ files'[k].status = "pending"
               /\ files'[k].syncStatus = InitialSync(variant)
               /\ files'[k].extractedData = NoData
               /\ files'[k].error = NoError
          /\ uploads' # uploads
               => \E u \in 1..Len(uploads) :
                    /\ Len(uploads[u]) = n
                    /\ \A k \in 1..n :
                         IF uploads[u][k] = "pdf"
                           THEN files'[Len(files) + k].preview \in {"page", ""}
                           ELSE files'[Len(files) + k].preview = "image"]_vars

\* during a run, with another upload still under preparation, the queue
\* has the entry of a PDF that could not be rendered behind an entry the
\* run has captured
C30_Witness ==
  /\ pc = "extract"
  /\ Len(uploads) = 1
  /\ \E j \in 1..Len(files), k \in 1..Len(files) :
       /\ j < k
       /\ files[j].slot > 0
       /\ files[k].slot = 0 /\ files[k].preview = ""

(* ---------------------------------------------------------------------- *)
\* C31  The detection an upload starts changes the Field Registry only if
\* the registry is empty when its result arrives, so regions drawn in the
\* meantime and the result of an earlier detection are not overwritten;
\* the first detected Region then becomes the active one.
C31_SeedsEmptyRegistry ==
  [][detecting' < detecting /\ regions' # regions
       => /\ regions = <<>>
          /\ activeRegionId' = regions'[1].id]_vars

(* ---------------------------------------------------------------------- *)
\* C32  Every file of a run is extracted with the Field Registry and the
\* hints the operator had when the run was started, and goes on to the
\* sync stage according to the sync settings of that moment: what the run
\* holds of them does not change while it is suspended, whatever the
\* operator renames, deletes or switches meanwhile.
C32_RunSnapshot ==
  [][/\ pc = "idle" /\ pc' # "idle"
          => /\ runRegions' = regions
             /\ runHints' = aiHints
             /\ runSheetOn' = SheetStageOn(isSheetEnabled, spreadsheetId,
                                           accessToken)
     /\ pc # "idle" /\ pc' # "idle"
          => /\ runRegions' = runRegions
             /\ runHints' = runHints
             /\ runSheetOn' = runSheetOn
     /\ pc = "extract" /\ outcome' = "ok"
          => /\ files'[i].extractedData.keys = RegionNames(runRegions)
             /\ files'[i].extractedData.hints
                  = (IF variant = "sheets" THEN "" ELSE runHints)
             /\ (pc' = "sync" /\ i' = i)
                  <=> HasSyncStage(variant, runSheetOn)]_vars

\* a file has been extracted under the names and the hints of the start
\* of the run after the operator renamed a region and changed the hints
C32_Witness ==
  /\ pc = "sync"
  /\ RegionNames(regions) # RegionNames(runRegions)
  /\ aiHints # runHints
  /\ result.keys = RegionNames(runRegions)
  /\ result.hints = runHints

(* ---------------------------------------------------------------------- *)
\* C33  Within one run no file is taken up twice: an extraction call and a
\* sync call are each settled once and not made again for the same file,
\* and a sync call is made only right after the extraction of the same
\* file resolved, with the data it resolved with.
C33_NoRetry ==
  [][/\ \A a \in 1..Len(visited'), b \in 1..Len(visited') :
          a # b => visited'[a] # visited'[b]
     /\ RunStep /\ pc = "extract" => ~(pc' = "extract" /\ i' = i)
     /\ RunStep /\ pc = "sync" => ~(pc' = "sync" /\ i' = i)
     /\ pc' = "sync" /\ pc # "sync"
          => /\ pc = "extract" /\ outcome' = "ok" /\ i' = i
             /\ result'.src = i
             /\ result'.keys = RegionNames(runRegions)]_vars

\* the sync call of a later file is outstanding while an earlier file of
\* the run has ended in error and has been left behind
C33_Witness ==
  /\ pc = "sync"
  /\ result.src = i
  /\ \E k \in 1..Len(files) :
       /\ files[k].slot > 0 /\ files[k].slot < i
       /\ files[k].status = "error"

(* ---------------------------------------------------------------------- *)
\* C34  (sheets) A file that a run takes up again although it is completed
\* goes through extraction again, and the data it had is discarded: when
\* the new extraction resolves the file holds the new result, and when it
\* fails the file holds no extracted data.
C34_PriorDataDiscarded ==
  [][variant = "sheets" /\ pc = "extract" /\ RunStep
       => /\ outcome' \in {"ok", "throw"}
          /\ outcome' = "ok"
               => /\ files'[i].extractedData.src = "own"
                  /\ files'[i].extractedData.keys = RegionNames(runRegions)
          /\ outcome' = "throw" => files'[i].extractedData = NoData]_vars

(* ---------------------------------------------------------------------- *)
\* C35  A rename changes the name of one Region and nothing else: every
\* other Region, the id, the place and the size of the renamed one, the
\* order of the registry, the active selection and every file stay as they
\* are.  A file extracted before keeps its keys, so its cell for the
\* renamed Region is empty unless the new name is one of those keys.
C35_RenameFrame ==
  [][Len(regions') = Len(regions) /\ regions' # regions
       => /\ \E k \in 1..Len(regions) :
               /\ regions'[k].name # regions[k].name
               /\ regions' = [regions EXCEPT ![k].name = regions'[k].name]
               /\ \A f \in 1..Len(files') :
                    (\A j \in 1..Len(files'[f].extractedData.keys) :
                       files'[f].extractedData.keys[j] # regions'[k].name)
                      => RowData(files'[f].extractedData, regions')[k] = ""
          /\ activeRegionId' = activeRegionId
          /\ files' = files]_vars

\* a completed file has a value under "Field 2" and the registry has that
\* Region under the name "Total": the file's cell for it is empty
C35_Witness ==
  /\ Len(regions) = 2 /\ regions[2].name = "Total"
  /\ \E f \in 1..Len(files) :
       /\ files[f].status = "completed"
       /\ files[f].extractedData.keys = <<"Field 1", "Field 2">>
       /\ RowData(files[f].extractedData, regions) = <<"Field 1", "">>

(* ---------------------------------------------------------------------- *)
\* C36  A file that has left the queue is no longer worked on: whenever a
\* call of a collaborator is made for a file, the file is in the queue, and
\* no entry of the queue holds data extracted from another file's image.
C36_RemovedFileLeftAlone ==
  [][/\ pc' # "idle" /\ (pc' # pc \/ i' # i)
          => \E k \in 1..Len(files') : files'[k].slot = i'
     /\ \A k \in 1..Len(files') :
          files'[k].extractedData.src # "other"]_vars

(* ---------------------------------------------------------------------- *)
\* C37  A file enqueued while a run is in progress is left alone by that
\* run: no collaborator is called for it and no write of the loop lands on
\* it, so it stays as it was enqueued until the run has ended.
C37_LateFilesUntouched ==
  [][RunStep
       => \A k \in 1..Len(files) :
            files[k].slot = 0 => k <= Len(files') /\ files'[k] = files[k]]_vars

(* ---------------------------------------------------------------------- *)
\* C38  At most one run is active: isProcessing is true exactly while the
\* loop is between its start and its end, the run control is disabled
\* whenever isProcessing is true or the queue is empty, and every step of
\* the run either ends it or moves the one loop forward (to the next call
\* of the same file or to a later file of the same captured queue), so no
\* second loop starts over while one is active.
LoopPosition(stage, index) == 2 * index + (IF stage = "sync" THEN 1 ELSE 0)

C38_SingleRun ==
  [][/\ isProcessing <=> pc # "idle"
     /\ (isProcessing \/ Len(files) = 0)
          => RunDisabled(variant, isProcessing, files, regions)
     /\ RunStep =>
          \/ pc' = "idle" /\ ~isProcessing' /\ runFiles' = <<>>
          \/ /\ isProcessing' /\ runFiles' = runFiles
             /\ LoopPosition(pc', i') > LoopPosition(pc, i)
             /\ Len(visited') >= Len(visited)]_vars

\* a run is at its second file and only isProcessing disables the button
C38_Witness ==
  /\ pc # "idle" /\ isProcessing /\ Len(visited) = 2
  /\ Len(files) > 0 /\ Len(regions) > 0
  /\ RunDisabled(variant, isProcessing, files, regions)

(* ---------------------------------------------------------------------- *)
\* C39  Sheets variant, sheet sync switched on, spreadsheet id or access
\* token empty: the spreadsheet collaborator is never called; a file whose
\* extraction resolves ends completed with its sheet sync status at the
\* initial value; and a run started in this configuration skips no file:
\* it takes up the first file of the queue, and each of its steps goes on
\* to the very next index of the captured queue.
CredentialsMissing ==
  variant = "sheets" /\ (spreadsheetId = "" \/ accessToken = "")

C39_MissingCredentials ==
  [][CredentialsMissing =>
       /\ pc # "sync" /\ pc' # "sync"
       /\ (isSheetEnabled /\ pc = "extract" /\ outcome' = "ok" /\ Aligned) =>
            /\ files'[i].status = "completed"
            /\ files'[i].syncStatus = InitialSync(variant)
       /\ (isSheetEnabled /\ ClickStep /\ Len(regions) > 0) =>
            pc' = "extract" /\ i' = 1 /\ \A k \in 1..Len(runFiles') : ~runFiles'[k].skip
       /\ (RunStep /\ \A k \in 1..Len(runFiles) : ~runFiles[k].skip) =>
            IF i < Len(runFiles) THEN pc' = "extract" /\ i' = i + 1
            ELSE pc' = "idle"]_vars

(* ---------------------------------------------------------------------- *)
\* C40  When a detection call settles, isDetecting is false afterwards in
\* every outcome; a call that throws or resolves with an empty list leaves
\* the registry and the active selection as they were; a call that resolves
\* with a non-empty list makes that list the whole registry and its first
\* region the active one.
C40_DetectionOutcome ==
  [][detecting' < detecting =>
       /\ ~isDetecting'
       /\ detection'.o \in {"resolve", "throw"}
       /\ IF detection'.o = "resolve" /\ Len(detection'.d) > 0
            THEN /\ regions' = detection'.d
                 /\ activeRegionId' = detection'.d[1].id
            ELSE /\ regions' = regions
                 /\ activeRegionId' = activeRegionId]_vars

\* a detection call has just resolved with an empty list while the registry
\* held regions, and they are still there
C40_Witness ==
  /\ detection.o = "resolve" /\ detection.d = <<>>
  /\ ~isDetecting /\ Len(regions) > 0 /\ activeRegionId # 0

====
